---- MODULE Spec2Model ----
(***************************************************************************)
(* Fantasy-Playoffs-Calculator: src/fantasy_playoffs_calculator.py.        *)
(*                                                                         *)
(* The program is sequential glue between a stats service and a            *)
(* spreadsheet.  Its data-shaping routines are modelled as operators that  *)
(* compute what the Python computes, and each routine is exercised by a    *)
(* specification whose initial states enumerate its inputs:                *)
(*   SpecColumn   get_column_letter                                        *)
(*   SpecLookup   create_player_name_map + the lookup of a player name     *)
(*   SpecResolve  get_weekly_stats_for_player                              *)
(*   SpecRoster   process_spreadsheet on one roster grid                   *)
(*   SpecTotals   update_totals_sheet on a spreadsheet of round sheets     *)
(*   Spec         the operator's session: roster and stats corrections     *)
(*                interleaved with process_spreadsheet runs                *)
(*                                                                         *)
(* Numbers: fantasy points are modelled as integers; float() of a numeric  *)
(* value is that value.  Text: player names and sheet titles are sequences *)
(* of one-character strings, so that lower(), strip() and the substring    *)
(* test of the title scan are computed, not assumed.                       *)
(***************************************************************************)
EXTENDS Integers, Sequences, FiniteSets, TLC

VARIABLES
    index,        \* get_column_letter: the loop variable `index`
    result,       \* get_column_letter: the label built so far
    col_input,    \* get_column_letter: the argument of the call
    col_pc,       \* get_column_letter: "loop" | "done" | "idle"
    players,      \* the directory the stats service returns (get_players_info)
    stats,        \* week -> (player id -> stat record) (get_player_stats)
    player_map,   \* SleeperFantasyAPI.player_map
    player_name,  \* get_weekly_stats_for_player: argument
    week,         \* get_weekly_stats_for_player: argument
    points,       \* get_weekly_stats_for_player: the value returned
    api_pc,       \* "new" | "ready" | "returned" | "idle"
    sheets,       \* the spreadsheet: its sheets in order, each a title and a grid
    scores,       \* process_spreadsheet: the `scores` dict of the last run
    totals_out,   \* update_totals_sheet: its locals when the last call ended
    last_run,     \* the last call: its week and how it ended
    runs,         \* calls made so far
    latest        \* week -> the scores grid the most recent run of the week wrote

col_vars == <<index, result, col_input, col_pc>>
api_vars == <<players, stats, player_map, player_name, week, points, api_pc>>

run_vars == <<sheets, scores, totals_out, last_run, runs, latest>>

vars == <<col_vars, api_vars, run_vars>>

-----------------------------------------------------------------------------
(* Bounds of the model *)

\* indices tried beyond the last two-letter column
ExtraIndex == 3
\* records of the player directory
MaxPlayers == 2
\* characters of a looked-up player name
MaxNameLen == 4
\* stat values 0 .. MaxStat besides the values of the documented example
MaxStat == 1
\* position rows of a roster grid
MaxRows == 2
\* round sheets of the spreadsheet update_totals_sheet is tried on
MaxSheets == 2
\* the numbers 1 .. MaxTotal of a round sheet's last row
MaxTotal == 1
\* process_spreadsheet runs of one session
MaxRuns == 3

-----------------------------------------------------------------------------
(* ColumnCodec: get_column_letter *)

\* string.ascii_uppercase
ascii_uppercase ==
    << "A", "B", "C", "D", "E", "F", "G", "H", "I", "J", "K", "L", "M",
       "N", "O", "P", "Q", "R", "S", "T", "U", "V", "W", "X", "Y", "Z" >>

\* the 26 of `index % 26` and `index // 26`
AlphabetSize == 26

\* the last index whose label has two letters (ZZ)
LastTwoLetterIndex == AlphabetSize + AlphabetSize * AlphabetSize - 1

\* the loop body with the carry of plain base 26 (the -1 forgotten)
ColumnLoopBody_PlainBase26(idx, res) ==
    [ index  |-> IF idx < AlphabetSize THEN -1 ELSE idx \div AlphabetSize,
      result |-> <<ascii_uppercase[(idx % AlphabetSize) + 1]>> \o res ]

\* one iteration of the while loop: prepend a letter, carry with -1
ColumnLoopBody(idx, res) ==
    [ index  |-> (idx \div AlphabetSize) - 1,
      result |-> <<ascii_uppercase[(idx % AlphabetSize) + 1]>> \o res ]

RECURSIVE ColumnLoop(_, _)
ColumnLoop(idx, res) ==
    IF idx >= 0
    THEN LET n == ColumnLoopBody(idx, res) IN ColumnLoop(n.index, n.result)
    ELSE res

\* def get_column_letter(index)
get_column_letter(idx) == ColumnLoop(idx, <<>>)

ColumnInit ==
    /\ col_input \in 0 .. (LastTwoLetterIndex + ExtraIndex)
    /\ index = col_input
    /\ result = <<>>
    /\ col_pc = "loop"

ColumnIdle ==
    /\ col_input = 0
    /\ index = 0
    /\ result = <<>>
    /\ col_pc = "idle"

\* while index >= 0: ...
ColumnStep ==
    /\ col_pc = "loop"
    /\ index >= 0
    /\ LET n == ColumnLoopBody(index, result)
       IN /\ index' = n.index
          /\ result' = n.result
    /\ UNCHANGED <<col_input, col_pc, api_vars, run_vars>>

\* return result
ColumnReturn ==
    /\ col_pc = "loop"
    /\ index < 0
    /\ col_pc' = "done"
    /\ UNCHANGED <<col_input, index, result, api_vars, run_vars>>

ColumnNext == ColumnStep \/ ColumnReturn

-----------------------------------------------------------------------------
(* Text: Python str as a sequence of one-character strings *)

ascii_lowercase ==
    << "a", "b", "c", "d", "e", "f", "g", "h", "i", "j", "k", "l", "m",
       "n", "o", "p", "q", "r", "s", "t", "u", "v", "w", "x", "y", "z" >>

LowerChar(c) ==
    IF \E i \in 1 .. AlphabetSize : ascii_uppercase[i] = c
    THEN ascii_lowercase[CHOOSE i \in 1 .. AlphabetSize : ascii_uppercase[i] = c]
    ELSE c

\* str.lower()
lower(s) == [i \in 1 .. Len(s) |-> LowerChar(s[i])]

IsSpace(c) == c = " "

RECURSIVE lstrip(_)
lstrip(s) ==
    IF s # <<>> /\ IsSpace(Head(s)) THEN lstrip(Tail(s)) ELSE s

RECURSIVE rstrip(_)
rstrip(s) ==
    IF s # <<>> /\ IsSpace(s[Len(s)]) THEN rstrip(SubSeq(s, 1, Len(s) - 1)) ELSE s

\* str.strip()
strip(s) == rstrip(lstrip(s))

-----------------------------------------------------------------------------
(* PlayerDirectory and ScoreResolver: class SleeperFantasyAPI *)

\* offensive_positions
offensive_positions == {"QB", "RB", "WR", "TE", "K", "FB"}

\* dict.get(key) of a missing key: None (falsy, like an empty id)
None == "None"

\* f"{first_name} {last_name}".strip().lower()
full_name(player_info) ==
    lower(strip(player_info.first_name \o <<" ">> \o player_info.last_name))

\* the body of `for player_id, player_info in players.items()`
NameMapLoopBody(name_to_id, player_info) ==
    IF /\ player_info.position \in offensive_positions
       /\ full_name(player_info) # <<>>
    THEN LET key == full_name(player_info)
         IN [k \in (DOMAIN name_to_id) \cup {key} |->
                IF k = key THEN player_info.id ELSE name_to_id[k]]
    ELSE name_to_id

RECURSIVE NameMapLoop(_, _)
NameMapLoop(name_to_id, rest) ==
    IF rest = <<>>
    THEN name_to_id
    ELSE NameMapLoop(NameMapLoopBody(name_to_id, Head(rest)), Tail(rest))

\* the empty dict
EmptyDict == [k \in {} |-> None]

\* def create_player_name_map(self)
create_player_name_map(all_players) == NameMapLoop(EmptyDict, all_players)

\* self.player_map.get(player_name.lower())
LookupPlayerId(map, name) ==
    LET key == lower(name)
    IN IF key \in DOMAIN map THEN map[key] ELSE None

\* stats.get(player_id, {})
StatsGet(week_stats, player_id) ==
    IF player_id \in DOMAIN week_stats THEN week_stats[player_id] ELSE EmptyDict

\* the chain probed in the opposite order
ProbeFields_Reversed(player_stats) ==
    IF "fantasy_points" \in DOMAIN player_stats THEN player_stats["fantasy_points"]
    ELSE IF "fantasy_points_ppr" \in DOMAIN player_stats
         THEN player_stats["fantasy_points_ppr"]
    ELSE IF "pts_ppr" \in DOMAIN player_stats
         THEN player_stats["pts_ppr"]
    ELSE 0

\* the if/elif chain over the scoring fields; float(v) of a number is v
ProbeFields(player_stats) ==
    IF "pts_ppr" \in DOMAIN player_stats THEN player_stats["pts_ppr"]
    ELSE IF "fantasy_points_ppr" \in DOMAIN player_stats
         THEN player_stats["fantasy_points_ppr"]
    ELSE IF "fantasy_points" \in DOMAIN player_stats
         THEN player_stats["fantasy_points"]
    ELSE 0

\* def get_weekly_stats_for_player(self, player_name, week)
get_weekly_stats_for_player(map, all_stats, name, wk) ==
    LET player_id == LookupPlayerId(map, name)
    IN IF player_id = None \/ player_id = ""
       THEN 0
       ELSE ProbeFields(StatsGet(all_stats[wk], player_id))

\* def get_round_name(week_num), for the weeks the program runs
Weeks == 1 .. 4

\* __init__: self.player_map = self.create_player_name_map()
CreatePlayerNameMap ==
    /\ api_pc = "new"
    /\ player_map' = create_player_name_map(players)
    /\ api_pc' = "ready"
    /\ UNCHANGED <<players, stats, player_name, week, points, col_vars, run_vars>>

\* a call of get_weekly_stats_for_player
GetWeeklyStatsForPlayer ==
    /\ api_pc = "ready"
    /\ points' = get_weekly_stats_for_player(player_map, stats, player_name, week)
    /\ api_pc' = "returned"
    /\ UNCHANGED <<players, stats, player_map, player_name, week, col_vars, run_vars>>

ApiNext == CreatePlayerNameMap \/ GetWeeklyStatsForPlayer

ApiIdle ==
    /\ players = <<>>
    /\ stats = <<>>
    /\ player_map = EmptyDict
    /\ player_name = <<>>
    /\ week = 0
    /\ points = 0
    /\ api_pc = "idle"

(* Inputs of the lookup: directories of at most MaxPlayers records and every
   name of at most MaxNameLen characters *)
NameChars == {"J", "j", "S", " "}
FirstNames == {<<"J">>, <<"j">>, <<>>}
LastNames == {<<"S">>, <<>>}
PlayerIds == <<"p1", "p2", "p3">>

SeqsUpTo(S, n) == UNION {[1 .. k -> S] : k \in 0 .. n}

PlayerInfos(i) ==
    [id : {PlayerIds[i]}, first_name : FirstNames, last_name : LastNames,
     position : {"QB", "DEF"}]

Directories ==
    UNION { {d \in [1 .. n -> UNION {PlayerInfos(i) : i \in 1 .. n}] :
               \A i \in 1 .. n : d[i].id = PlayerIds[i]} : n \in 1 .. MaxPlayers }

\* every listed player has a pts_ppr of its own in every week
LookupStats ==
    [w \in Weeks |-> [p \in {PlayerIds[i] : i \in 1 .. MaxPlayers} |->
        [f \in {"pts_ppr"} |-> 10 * w + (CHOOSE i \in 1 .. MaxPlayers : PlayerIds[i] = p)]]]

LookupInit ==
    /\ players \in Directories
    /\ stats = LookupStats
    /\ player_map = EmptyDict
    /\ player_name \in SeqsUpTo(NameChars, MaxNameLen)
    /\ week = 1
    /\ points = 0
    /\ api_pc = "new"

(* Inputs of the score resolution: one known player, every stat record over
   the three scoring fields and one other field *)
StatFields == {"pts_ppr", "fantasy_points_ppr", "fantasy_points", "rec"}
StatValues == (0 .. MaxStat) \cup {5, 8, 12}
StatRecords == UNION {[S -> StatValues] : S \in SUBSET StatFields}

ResolvePlayers ==
    << [id |-> "p1", first_name |-> <<"J">>, last_name |-> <<"S">>, position |-> "QB"] >>

\* the stats of the weeks not asked for: a pts_ppr no asked week can hold
OtherWeek == [p \in {"p1"} |-> [f \in {"pts_ppr"} |-> 99]]

ResolveInit ==
    /\ players = ResolvePlayers
    /\ week \in Weeks
    /\ \E table \in {EmptyDict} \cup [{"p1"} -> StatRecords] :
          stats = [w \in Weeks |-> IF w = week THEN table ELSE OtherWeek]
    /\ player_map = EmptyDict
    /\ player_name \in {<<"J", " ", "S">>, <<"j", " ", "s">>, <<"S">>}
    /\ points = 0
    /\ api_pc = "new"

-----------------------------------------------------------------------------
(* The spreadsheet service: cells, grids, values.get and values.update *)

\* a cell holds text or a number; the empty cell is the empty text
Str(text) == [s |-> text]
Num(v) == [n |-> v]
Blank == Str(<<>>)

\* float(cell) succeeds
IsNumber(cell) == "n" \in DOMAIN cell

RECURSIVE TrimRow(_)
TrimRow(row) ==
    IF row # <<>> /\ row[Len(row)] = Blank
    THEN TrimRow(SubSeq(row, 1, Len(row) - 1))
    ELSE row

RECURSIVE TrimRows(_)
TrimRows(grid) ==
    IF grid # <<>> /\ grid[Len(grid)] = <<>>
    THEN TrimRows(SubSeq(grid, 1, Len(grid) - 1))
    ELSE grid

\* values.get: the rows without their trailing empty cells, the grid without
\* its trailing empty rows
Trim(grid) == TrimRows([r \in 1 .. Len(grid) |-> TrimRow(grid[r])])

Max(a, b) == IF a >= b THEN a ELSE b

CellAt(grid, r, c) ==
    IF r <= Len(grid) /\ c <= Len(grid[r]) THEN grid[r][c] ELSE Blank

\* the column number (from 1) an A1 label names
RECURSIVE ColumnNumber(_, _)
ColumnNumber(label, acc) ==
    IF label = <<>>
    THEN acc
    ELSE ColumnNumber(Tail(label),
            acc * AlphabetSize
            + (CHOOSE a \in 1 .. AlphabetSize : ascii_uppercase[a] = Head(label)))

\* the range A1:<last_col><last_row>
A1Range(last_col, last_row) == [cols |-> ColumnNumber(last_col, 0), rows |-> last_row]

Fits(values, range) ==
    /\ Len(values) <= range.rows
    /\ \A r \in 1 .. Len(values) : Len(values[r]) <= range.cols

\* values.update(range, body.values): the given cells replace the cells at
\* their places; every other cell of the sheet keeps its content
Overlay(grid, values) ==
    Trim([r \in 1 .. Max(Len(grid), Len(values)) |->
            [c \in 1 .. Max(IF r <= Len(grid) THEN Len(grid[r]) ELSE 0,
                            IF r <= Len(values) THEN Len(values[r]) ELSE 0) |->
                IF r <= Len(values) /\ c <= Len(values[r])
                THEN values[r][c]
                ELSE CellAt(grid, r, c)]])

HasSheet(doc, title) == \E i \in 1 .. Len(doc) : doc[i].title = title

GridOf(doc, title) == doc[CHOOSE i \in 1 .. Len(doc) : doc[i].title = title].grid

\* batchUpdate addSheet: a new empty sheet after the others
AddSheet(doc, title) == Append(doc, [title |-> title, grid |-> <<>>])

UpdateSheet(doc, title, values) ==
    [i \in 1 .. Len(doc) |->
        IF doc[i].title = title
        THEN [title |-> title, grid |-> Overlay(doc[i].grid, values)]
        ELSE doc[i]]

-----------------------------------------------------------------------------
(* Texts of the program *)

T_Position == <<"P", "o", "s", "i", "t", "i", "o", "n">>
T_TOTAL == <<"T", "O", "T", "A", "L">>
T_MISSING == <<"M", "I", "S", "S", "I", "N", "G">>
T_Round == <<"R", "o", "u", "n", "d">>
T_Scores == <<" ", "S", "c", "o", "r", "e", "s">>
T_RunningTotals ==
    <<"R", "u", "n", "n", "i", "n", "g", " ", "T", "o", "t", "a", "l", "s">>
T_Sheet1 == <<"S", "h", "e", "e", "t", "1">>

DecimalDigits == <<"0", "1", "2", "3", "4", "5", "6", "7", "8", "9">>

\* str(n) of a natural number
RECURSIVE Decimal(_)
Decimal(n) ==
    IF n < 10
    THEN <<DecimalDigits[n + 1]>>
    ELSE Decimal(n \div 10) \o <<DecimalDigits[(n % 10) + 1]>>

\* def get_round_name(week_num)
get_round_name(week_num) ==
    CASE week_num = 1 -> T_Round \o <<" ", "1">>
      [] week_num = 2 -> T_Round \o <<" ", "2">>
      [] week_num = 3 -> T_Round \o <<" ", "3">>
      [] week_num = 4 -> <<"C", "h", "a", "m", "p", "i", "o", "n", "s", "h", "i", "p">>
      [] OTHER -> <<"W", "e", "e", "k", " ">> \o Decimal(week_num)

\* f"{get_round_name(week)} Scores"
ScoresTitle(wk) == get_round_name(wk) \o T_Scores

\* Python's `a in b` on str
IsSubstring(a, b) ==
    \E i \in 0 .. (Len(b) - Len(a)) : SubSeq(b, i + 1, i + Len(a)) = a

\* seq[1:]
Slice1(seq) == IF Len(seq) <= 1 THEN <<>> ELSE Tail(seq)

(* A Python dict whose keys are cells: its items in insertion order *)
DictHas(d, key) == \E i \in 1 .. Len(d) : d[i].key = key

DictGet(d, key) == d[CHOOSE i \in 1 .. Len(d) : d[i].key = key].val

\* d[key] = val: in place for a key of the dict, at the end for a new one
DictSet(d, key, val) ==
    IF DictHas(d, key)
    THEN [i \in 1 .. Len(d) |-> IF d[i].key = key THEN [key |-> key, val |-> val] ELSE d[i]]
    ELSE Append(d, [key |-> key, val |-> val])

DictKeys(d) == [i \in 1 .. Len(d) |-> d[i].key]

\* {k: val for k in seq}
RECURSIVE DictFromKeys(_, _, _)
DictFromKeys(seq, val, d) ==
    IF seq = <<>>
    THEN d
    ELSE DictFromKeys(Tail(seq), val, DictSet(d, Head(seq), val))

-----------------------------------------------------------------------------
(* TotalsAccumulator: update_totals_sheet *)

\* for week_num in range(1, 5): if get_round_name(week_num) in title
RECURSIVE MatchingWeeks(_, _)
MatchingWeeks(title, week_num) ==
    IF week_num > 4
    THEN <<>>
    ELSE (IF IsSubstring(get_round_name(week_num), title)
          THEN << [week_num |-> week_num, title |-> title] >>
          ELSE <<>>) \o MatchingWeeks(title, week_num + 1)

\* for sheet in all_sheets: ...
RECURSIVE ScanSheets(_)
ScanSheets(doc) ==
    IF doc = <<>>
    THEN <<>>
    ELSE MatchingWeeks(Head(doc).title, 1) \o ScanSheets(Tail(doc))

\* the place of x in a list sorted by week number (the model's titles never
\* tie on the week number, so the title never decides)
InsertByWeek(sorted, x) ==
    LET before == {i \in 1 .. Len(sorted) : sorted[i].week_num <= x.week_num}
        k == Cardinality(before)
    IN SubSeq(sorted, 1, k) \o <<x>> \o SubSeq(sorted, k + 1, Len(sorted))

\* week_sheets.sort()
RECURSIVE SortWeekSheets(_, _)
SortWeekSheets(rest, sorted) ==
    IF rest = <<>>
    THEN sorted
    ELSE SortWeekSheets(Tail(rest), InsertByWeek(sorted, Head(rest)))

\* totals = {}; weekly_scores = {}
EmptyTotals == [totals |-> <<>>, weekly_scores |-> <<>>, err |-> FALSE]

\* totals = {owner: 0.0 ...}; weekly_scores = {owner: [] ...}
InitTotals(owners) ==
    [totals |-> DictFromKeys(owners, 0, <<>>),
     weekly_scores |-> DictFromKeys(owners, <<>>, <<>>),
     err |-> FALSE]

\* the body with `=` for `+=`: the round's value replaces the running total
TotalsOwnerBody_Assign(acc, owner, total_row, owner_idx) ==
    IF owner_idx < Len(total_row) /\ IsNumber(total_row[owner_idx + 1])
    THEN IF DictHas(acc.totals, owner)
         THEN LET week_total == total_row[owner_idx + 1].n
              IN [acc EXCEPT
                    !.totals = DictSet(@, owner, week_total),
                    !.weekly_scores = DictSet(@, owner, Append(DictGet(@, owner), week_total))]
         ELSE [acc EXCEPT !.err = TRUE]
    ELSE IF DictHas(acc.weekly_scores, owner)
         THEN [acc EXCEPT
                 !.weekly_scores = DictSet(@, owner, Append(DictGet(@, owner), 0))]
         ELSE [acc EXCEPT !.err = TRUE]

\* the body without the except branch: a cell float() rejects ends the call
TotalsOwnerBody_NoExcept(acc, owner, total_row, owner_idx) ==
    IF owner_idx < Len(total_row) /\ IsNumber(total_row[owner_idx + 1])
    THEN IF DictHas(acc.totals, owner)
         THEN LET week_total == total_row[owner_idx + 1].n
              IN [acc EXCEPT
                    !.totals = DictSet(@, owner, DictGet(@, owner) + week_total),
                    !.weekly_scores = DictSet(@, owner, Append(DictGet(@, owner), week_total))]
         ELSE [acc EXCEPT !.err = TRUE]
    ELSE [acc EXCEPT !.err = TRUE]

\* the body crediting by position: the owner is the one the dicts hold at
\* the column's place, whatever the sheet's header names there
TotalsOwnerBody_Positional(acc, owner, total_row, owner_idx) ==
    LET holder == IF owner_idx < Len(acc.totals)
                  THEN acc.totals[owner_idx + 1].key
                  ELSE owner
    IN IF owner_idx < Len(total_row) /\ IsNumber(total_row[owner_idx + 1])
       THEN IF DictHas(acc.totals, holder)
            THEN LET week_total == total_row[owner_idx + 1].n
                 IN [acc EXCEPT
                       !.totals = DictSet(@, holder, DictGet(@, holder) + week_total),
                       !.weekly_scores = DictSet(@, holder,
                                                 Append(DictGet(@, holder), week_total))]
            ELSE [acc EXCEPT !.err = TRUE]
       ELSE IF DictHas(acc.weekly_scores, holder)
            THEN [acc EXCEPT
                    !.weekly_scores = DictSet(@, holder, Append(DictGet(@, holder), 0))]
            ELSE [acc EXCEPT !.err = TRUE]

\* the body of `for owner_idx, owner in enumerate(owners)`: float() of the
\* cell, or the except branch on ValueError (text) and IndexError (no cell);
\* an owner that is no key of the dicts is a KeyError, which ends the call
TotalsOwnerBody(acc, owner, total_row, owner_idx) ==
    IF owner_idx < Len(total_row) /\ IsNumber(total_row[owner_idx + 1])
    THEN IF DictHas(acc.totals, owner)
         THEN LET week_total == total_row[owner_idx + 1].n
              IN [acc EXCEPT
                    !.totals = DictSet(@, owner, DictGet(@, owner) + week_total),
                    !.weekly_scores = DictSet(@, owner, Append(DictGet(@, owner), week_total))]
         ELSE [acc EXCEPT !.err = TRUE]
    ELSE IF DictHas(acc.weekly_scores, owner)
         THEN [acc EXCEPT
                 !.weekly_scores = DictSet(@, owner, Append(DictGet(@, owner), 0))]
         ELSE [acc EXCEPT !.err = TRUE]

RECURSIVE TotalsOwnerLoop(_, _, _, _)
TotalsOwnerLoop(acc, owners, total_row, owner_idx) ==
    IF acc.err \/ owner_idx >= Len(owners)
    THEN acc
    ELSE TotalsOwnerLoop(TotalsOwnerBody(acc, owners[owner_idx + 1], total_row, owner_idx),
                         owners, total_row, owner_idx + 1)

\* the body of `for week_num, sheet_title in week_sheets`
TotalsSheetBody(acc, values) ==
    IF values = <<>>
    THEN acc
    ELSE LET owners == Slice1(values[1])
             started == IF acc.totals = <<>> THEN InitTotals(owners) ELSE acc
             total_row == Slice1(values[Len(values)])
         IN TotalsOwnerLoop(started, owners, total_row, 0)

RECURSIVE TotalsSheetLoop(_, _, _, _)
TotalsSheetLoop(acc, doc, week_sheets, k) ==
    IF acc.err \/ k > Len(week_sheets)
    THEN acc
    ELSE TotalsSheetLoop(TotalsSheetBody(acc, GridOf(doc, week_sheets[k].title)),
                         doc, week_sheets, k + 1)

\* the row of one round: weekly_scores[owner][week_idx], 0.0 on IndexError
WeekRow(acc, week_num, week_idx) ==
    <<Str(get_round_name(week_num))>> \o
    [i \in 1 .. Len(acc.totals) |->
        IF week_idx < Len(DictGet(acc.weekly_scores, acc.totals[i].key))
        THEN Num(DictGet(acc.weekly_scores, acc.totals[i].key)[week_idx + 1])
        ELSE Num(0)]

\* the values written to the Running Totals sheet
TotalsTable(acc, week_sheets) ==
    << <<Str(T_Round)>> \o DictKeys(acc.totals) >>
    \o [k \in 1 .. Len(week_sheets) |-> WeekRow(acc, week_sheets[k].week_num, k - 1)]
    \o << <<Str(T_TOTAL)>> \o [i \in 1 .. Len(acc.totals) |-> Num(acc.totals[i].val)] >>

\* a descending sort that puts a tied item before the items it ties with
InsertByTotal_TiesFirst(sorted, item) ==
    LET before == {i \in 1 .. Len(sorted) : sorted[i].val > item.val}
        k == Cardinality(before)
    IN SubSeq(sorted, 1, k) \o <<item>> \o SubSeq(sorted, k + 1, Len(sorted))

\* the place of an item in sorted(..., reverse=True): after the items that
\* are greater or equal (Python's sort is stable, also when reversed)
InsertByTotal(sorted, item) ==
    LET before == {i \in 1 .. Len(sorted) : sorted[i].val >= item.val}
        k == Cardinality(before)
    IN SubSeq(sorted, 1, k) \o <<item>> \o SubSeq(sorted, k + 1, Len(sorted))

\* sorted(totals.items(), key=lambda x: x[1], reverse=True)
RECURSIVE SortedTotals(_, _)
SortedTotals(items, sorted) ==
    IF items = <<>>
    THEN sorted
    ELSE SortedTotals(Tail(items), InsertByTotal(sorted, Head(items)))

NoTotals(doc, week_sheets, acc) ==
    [doc |-> doc, written |-> FALSE, week_sheets |-> week_sheets, values |-> <<>>,
     totals |-> acc.totals, weekly_scores |-> acc.weekly_scores,
     sorted_totals |-> <<>>]

\* def update_totals_sheet(service, spreadsheet_id, current_week)
update_totals_sheet(doc) ==
    LET week_sheets == SortWeekSheets(ScanSheets(doc), <<>>)
    IN IF week_sheets = <<>>
       THEN NoTotals(doc, week_sheets, EmptyTotals)
       ELSE
       LET acc == TotalsSheetLoop(EmptyTotals, doc, week_sheets, 1)
       IN IF acc.err
          THEN NoTotals(doc, week_sheets, acc)
          ELSE
          LET doc1 == IF HasSheet(doc, T_RunningTotals)
                      THEN doc ELSE AddSheet(doc, T_RunningTotals)
              values == TotalsTable(acc, week_sheets)
              range == A1Range(get_column_letter(Len(acc.totals)), Len(values))
          IN IF ~Fits(values, range)
             THEN NoTotals(doc1, week_sheets, acc)
             ELSE [doc |-> UpdateSheet(doc1, T_RunningTotals, values),
                   written |-> TRUE, week_sheets |-> week_sheets, values |-> values,
                   totals |-> acc.totals, weekly_scores |-> acc.weekly_scores,
                   sorted_totals |-> SortedTotals(acc.totals, <<>>)]

-----------------------------------------------------------------------------
(* RosterScorer: process_spreadsheet *)

\* the body of the two nested loops: the cell of the roster, or the except
\* branch on IndexError
RosterCellBody(sc, values, owner, pos, owner_idx, pos_idx, map, all_stats, wk) ==
    LET row == values[pos_idx + 2]
        entry == IF owner_idx + 1 < Len(row)
                 THEN [player |-> row[owner_idx + 2].s,
                       points |-> get_weekly_stats_for_player(
                                      map, all_stats, row[owner_idx + 2].s, wk)]
                 ELSE [player |-> T_MISSING, points |-> 0]
    IN DictSet(sc, owner, DictSet(DictGet(sc, owner), pos, entry))

\* for owner_idx, owner in enumerate(headers): for pos_idx, pos in enumerate(positions)
RECURSIVE RosterLoop(_, _, _, _, _, _, _, _)
RosterLoop(sc, values, headers, positions, k, map, all_stats, wk) ==
    IF positions = <<>> \/ k >= Len(headers) * Len(positions)
    THEN sc
    ELSE LET owner_idx == k \div Len(positions)
             pos_idx == k % Len(positions)
         IN RosterLoop(
              RosterCellBody(sc, values, headers[owner_idx + 1], positions[pos_idx + 1],
                             owner_idx, pos_idx, map, all_stats, wk),
              values, headers, positions, k + 1, map, all_stats, wk)

\* positions = [row[0] for row in values[1:] if row]
Positions(values) ==
    LET rows == SelectSeq(Slice1(values), LAMBDA row : row # <<>>)
    IN [i \in 1 .. Len(rows) |-> rows[i][1]]

\* sum(scores[owner][pos]['points'] for pos in positions)
RECURSIVE SumPoints(_, _, _)
SumPoints(sc, owner, positions) ==
    IF positions = <<>>
    THEN 0
    ELSE DictGet(DictGet(sc, owner), Head(positions)).points
         + SumPoints(sc, owner, Tail(positions))

\* the values written to the round's scores sheet
ScoresTable(sc, positions) ==
    << <<Str(T_Position)>> \o DictKeys(sc) >>
    \o [r \in 1 .. Len(positions) |->
           <<positions[r]>> \o
           [i \in 1 .. Len(sc) |-> Num(DictGet(sc[i].val, positions[r]).points)]]
    \o << <<Str(T_TOTAL)>> \o
           [i \in 1 .. Len(sc) |-> Num(SumPoints(sc, sc[i].key, positions))] >>

NoRun(doc) ==
    [doc |-> doc, done |-> FALSE, scores |-> <<>>, positions |-> <<>>,
     values |-> <<>>, totals |-> NoTotals(doc, <<>>, EmptyTotals)]

\* def process_spreadsheet(spreadsheet_id, week)
process_spreadsheet(doc, all_players, all_stats, wk) ==
    LET map == create_player_name_map(all_players)
        values == doc[1].grid
    IN IF values = <<>>
       THEN NoRun(doc)
       ELSE
       LET headers == Slice1(values[1])
           positions == Positions(values)
           sc == RosterLoop(DictFromKeys(headers, <<>>, <<>>), values, headers,
                            positions, 0, map, all_stats, wk)
           table == ScoresTable(sc, positions)
           title == ScoresTitle(wk)
           doc1 == IF HasSheet(doc, title) THEN doc ELSE AddSheet(doc, title)
           range == A1Range(get_column_letter(Len(headers)), Len(table))
       IN IF ~Fits(table, range)
          THEN [NoRun(doc1) EXCEPT !.scores = sc, !.positions = positions]
          ELSE LET t == update_totals_sheet(UpdateSheet(doc1, title, table))
               IN [doc |-> t.doc, done |-> TRUE, scores |-> sc,
                   positions |-> positions, values |-> table, totals |-> t]

-----------------------------------------------------------------------------
(* Runs of the program *)

\* no call yet; of a call: its week, whether it reached the totals update,
\* the roster it read, whether its inputs were those of the previous run of
\* the week, and whether it left every sheet as it was
NoLastRun ==
    [week |-> 0, done |-> FALSE, roster |-> <<>>, same_inputs |-> FALSE,
     unchanged |-> FALSE]

\* no run of the week yet; of the most recent run of a week: the scores grid
\* it wrote and the roster and stats it read
NoLatest == [values |-> <<>>, roster |-> <<>>, stats |-> <<>>]

RunIdle ==
    /\ sheets = <<>>
    /\ scores = <<>>
    /\ totals_out = NoTotals(<<>>, <<>>, EmptyTotals)
    /\ last_run = NoLastRun
    /\ runs = 0
    /\ latest = [w \in Weeks |-> NoLatest]

OwnerA == Str(<<"A">>)
OwnerB == Str(<<"B">>)
PosQB == Str(<<"Q", "B">>)
PosRB == Str(<<"R", "B">>)

\* the directory of the runs: two offensive players and a defender
RunPlayers ==
    << [id |-> "p1", first_name |-> <<"J">>, last_name |-> <<"S">>, position |-> "QB"],
       [id |-> "p2", first_name |-> <<"S">>, last_name |-> <<"J">>, position |-> "RB"],
       [id |-> "p3", first_name |-> <<"J">>, last_name |-> <<"J">>, position |-> "DEF"] >>

\* the names a roster cell holds: p1, p2 and a defender (no id)
RosterNames == {Str(<<"J", " ", "S">>), Str(<<"s", " ", "j">>), Str(<<"J", " ", "J">>)}

\* the stats of the runs: p1 scores a + week under pts_ppr, p2 scores b
\* under fantasy_points
RunStats(a, b) ==
    [w \in Weeks |->
        [p \in {"p1", "p2"} |->
            IF p = "p1" THEN [f \in {"pts_ppr"} |-> a + w]
                        ELSE [f \in {"fantasy_points"} |-> b]]]

StatsSet == {RunStats(3, 1), RunStats(5, 1)}

RosterSheet(grid) == [title |-> T_Sheet1, grid |-> grid]

\* the rows values.get returns for a roster row: nothing for an empty row,
\* else the label and the cells up to the last filled one
RosterRows(n_owners) ==
    {<<>>} \cup
    UNION {{<<pos>> \o cells : cells \in [1 .. k -> RosterNames]} :
             pos \in {PosQB, PosRB}, k \in 0 .. n_owners}

RosterHeaders == {<<Str(T_Position), OwnerA>>, <<Str(T_Position), OwnerA, OwnerB>>}

\* the roster grids: a header and at most MaxRows rows, the last not empty
RosterGrids(max_rows) ==
    UNION {UNION {{<<h>> \o rows : rows \in {r \in [1 .. k -> RosterRows(Len(h) - 1)] :
                                               k > 0 => r[k] # <<>>}} :
                    k \in 0 .. max_rows} :
             h \in RosterHeaders}

\* one call of process_spreadsheet, the totals update included
ProcessRun(wk) ==
    \E r \in {process_spreadsheet(sheets, players, stats, wk)} :
       /\ sheets' = r.doc
       /\ scores' = r.scores
       /\ totals_out' = [r.totals EXCEPT !.doc = <<>>]
       /\ last_run' = [week |-> wk, done |-> r.done, roster |-> sheets[1].grid,
                       same_inputs |-> /\ latest[wk].values # <<>>
                                       /\ latest[wk].roster = sheets[1].grid
                                       /\ latest[wk].stats = stats[wk],
                       unchanged |-> r.doc = sheets]
       /\ latest' = IF r.done
                    THEN [latest EXCEPT ![wk] = [values |-> r.values,
                                                 roster |-> sheets[1].grid,
                                                 stats |-> stats[wk]]]
                    ELSE latest
       /\ runs' = runs + 1

RosterInit ==
    /\ players = RunPlayers
    /\ stats = RunStats(3, 1)
    /\ player_map = EmptyDict
    /\ player_name = <<>>
    /\ week = 0
    /\ points = 0
    /\ api_pc = "idle"
    /\ \E grid \in RosterGrids(MaxRows) : sheets = <<RosterSheet(grid)>>
    /\ scores = <<>>
    /\ totals_out = NoTotals(<<>>, <<>>, EmptyTotals)
    /\ last_run = NoLastRun
    /\ runs = 0
    /\ latest = [w \in Weeks |-> NoLatest]

\* main(): one round chosen at the prompt, then process_spreadsheet
ScoreRoster ==
    /\ runs = 0
    /\ \E wk \in Weeks : ProcessRun(wk)
    /\ UNCHANGED <<col_vars, api_vars>>

RosterNext == ScoreRoster

(* update_totals_sheet on a spreadsheet holding round sheets: at most
   MaxSheets of the four, the latest round listed first, each empty
   or a header and a last row *)
TotalsHeaders ==
    {<<Str(T_Position), OwnerA, OwnerB>>, <<Str(T_Position), OwnerB, OwnerA>>,
     <<Str(T_Position), OwnerA>>}

\* a cell of a last row: a number, or text that is no number
TotalCells == {Num(v) : v \in 1 .. MaxTotal} \cup {Str(<<"x">>)}

TotalsGrids ==
    {<<>>} \cup
    {g \in {<<h, <<Str(T_TOTAL)>> \o cells>> :
        h \in TotalsHeaders, cells \in SeqsUpTo(TotalCells, 2)} :
             Len(g[2]) <= Len(g[1])}

\* the sheets of the weeks of W, the latest round first: the order the
\* title scan has to sort
RECURSIVE RoundSheets(_, _)
RoundSheets(W, grids) ==
    IF W = {}
    THEN <<>>
    ELSE LET w == CHOOSE m \in W : \A o \in W : m <= o
         IN Append(RoundSheets(W \ {w}, grids),
                   [title |-> ScoresTitle(w), grid |-> grids[w]])

\* the documented example: round 1 totals [10, 20], round 2 totals [5, 25]
ExampleSheets ==
    << [title |-> ScoresTitle(1),
        grid |-> << <<Str(T_Position), OwnerA, OwnerB>>,
                    <<Str(T_TOTAL), Num(10), Num(20)>> >>],
       [title |-> ScoresTitle(2),
        grid |-> << <<Str(T_Position), OwnerA, OwnerB>>,
                    <<Str(T_TOTAL), Num(5), Num(25)>> >>] >>

TotalsRoster == RosterSheet(<< <<Str(T_Position), OwnerA, OwnerB>> >>)

TotalsInit ==
    /\ players = RunPlayers
    /\ stats = RunStats(3, 1)
    /\ player_map = EmptyDict
    /\ player_name = <<>>
    /\ week = 0
    /\ points = 0
    /\ api_pc = "idle"
    /\ \/ \E W \in SUBSET Weeks :
            /\ Cardinality(W) \in 1 .. MaxSheets
            /\ \E grids \in [W -> TotalsGrids] :
                 sheets = <<TotalsRoster>> \o RoundSheets(W, grids)
       \/ sheets = <<TotalsRoster>> \o ExampleSheets
    /\ scores = <<>>
    /\ totals_out = NoTotals(<<>>, <<>>, EmptyTotals)
    /\ last_run = NoLastRun
    /\ runs = 0
    /\ latest = [w \in Weeks |-> NoLatest]

\* one call of update_totals_sheet
UpdateTotalsSheet ==
    /\ runs = 0
    /\ \E t \in {update_totals_sheet(sheets)} :
         /\ sheets' = t.doc
         /\ totals_out' = [t EXCEPT !.doc = <<>>]
    /\ runs' = 1
    /\ UNCHANGED <<scores, last_run, latest, col_vars, api_vars>>

TotalsNext == UpdateTotalsSheet

(* The operator's session: the roster sheet and the stats are corrected
   between runs of process_spreadsheet *)
SessionRosters ==
    {<< <<Str(T_Position), OwnerA, OwnerB>>, <<PosQB, name, Str(<<"s", " ", "j">>)>> >> \o rest :
        name \in {Str(<<"J", " ", "S">>), Str(<<"s", " ", "j">>)},
        rest \in {<<>>, << <<PosRB, Str(<<"s", " ", "j">>), Str(<<"J", " ", "S">>)>> >>}}

SessionInit ==
    /\ players = RunPlayers
    /\ stats \in StatsSet
    /\ player_map = EmptyDict
    /\ player_name = <<>>
    /\ week = 0
    /\ points = 0
    /\ api_pc = "idle"
    /\ \E grid \in SessionRosters : sheets = <<RosterSheet(grid)>>
    /\ scores = <<>>
    /\ totals_out = NoTotals(<<>>, <<>>, EmptyTotals)
    /\ last_run = NoLastRun
    /\ runs = 0
    /\ latest = [w \in Weeks |-> NoLatest]

\* the operator corrects the roster sheet
EditRoster ==
    /\ \E grid \in SessionRosters :
         /\ grid # sheets[1].grid
         /\ sheets' = [sheets EXCEPT ![1].grid = grid]
    /\ UNCHANGED <<scores, totals_out, last_run, runs, latest, col_vars, api_vars>>

\* the stats service corrects the stats
CorrectStats ==
    /\ \E st \in StatsSet : st # stats /\ stats' = st
    /\ UNCHANGED <<players, player_map, player_name, week, points, api_pc,
                   run_vars, col_vars>>

\* main(): the round chosen at the prompt, then process_spreadsheet
ProcessSpreadsheet ==
    /\ runs < MaxRuns
    /\ \E wk \in Weeks : ProcessRun(wk)
    /\ UNCHANGED <<col_vars, api_vars>>

Next == EditRoster \/ CorrectStats \/ ProcessSpreadsheet

InitColumn == ColumnInit /\ ApiIdle /\ RunIdle
InitLookup == ColumnIdle /\ LookupInit /\ RunIdle
InitResolve == ColumnIdle /\ ResolveInit /\ RunIdle
InitRoster == ColumnIdle /\ RosterInit
InitTotalsSheet == ColumnIdle /\ TotalsInit
Init == ColumnIdle /\ SessionInit

SpecColumn == InitColumn /\ [][ColumnNext]_vars
SpecLookup == InitLookup /\ [][ApiNext]_vars
SpecResolve == InitResolve /\ [][ApiNext]_vars
SpecRoster == InitRoster /\ [][RosterNext]_vars
SpecTotals == InitTotalsSheet /\ [][TotalsNext]_vars
Spec == Init /\ [][Next]_vars

-----------------------------------------------------------------------------
(* C1: get_column_letter on 0 .. 701 *)

\* the i-th label (from 0) of the sequence A, ..., Z, AA, AB, ..., ZZ
NthLabel(i) ==
    IF i < AlphabetSize
    THEN <<ascii_uppercase[i + 1]>>
    ELSE <<ascii_uppercase[((i - AlphabetSize) \div AlphabetSize) + 1],
           ascii_uppercase[((i - AlphabetSize) % AlphabetSize) + 1]>>

\* C1: for every index in 0 .. 701 get_column_letter returns the label at
\* that place of A, ..., Z, AA, ..., ZZ (one or two letters A-Z), no other
\* index of the range returns the same label, and 0 -> A, 25 -> Z,
\* 26 -> AA, 701 -> ZZ.
C1_ColumnLabelBijection ==
    (col_pc = "done" /\ col_input <= LastTwoLetterIndex) =>
        /\ result = NthLabel(col_input)
        /\ Len(result) \in {1, 2}
        /\ \A k \in 1 .. Len(result) :
              \E a \in 1 .. AlphabetSize : result[k] = ascii_uppercase[a]
        /\ \A j \in 0 .. LastTwoLetterIndex :
              j # col_input => get_column_letter(j) # result
        /\ (col_input = 0 => result = <<"A">>)
        /\ (col_input = 25 => result = <<"Z">>)
        /\ (col_input = 26 => result = <<"A", "A">>)
        /\ (col_input = 701 => result = <<"Z", "Z">>)

C1_Witness ==
    col_pc = "done" /\ col_input = LastTwoLetterIndex /\ result = <<"Z", "Z">>

-----------------------------------------------------------------------------
(* C2: score resolution *)

FieldPriority == <<"pts_ppr", "fantasy_points_ppr", "fantasy_points">>

\* the record of the asked week for the id the name resolves to
C2_Record ==
    LET id == LookupPlayerId(player_map, player_name)
    IN IF id # None /\ id \in DOMAIN stats[week] THEN stats[week][id] ELSE EmptyDict

C2_Example ==
    [f \in {"fantasy_points", "fantasy_points_ppr", "pts_ppr"} |->
        IF f = "fantasy_points" THEN 5 ELSE IF f = "fantasy_points_ppr" THEN 8 ELSE 12]

\* C2: the value returned is that of the first present field in the order
\* pts_ppr, fantasy_points_ppr, fantasy_points, whatever else is present
\* (12 for the documented record); it is 0 when the name has no id, when
\* the id has no record for the week, and when the record has none of the
\* three fields.
C2_ScoreResolution ==
    api_pc = "returned" =>
        LET id  == LookupPlayerId(player_map, player_name)
            rec == C2_Record
        IN /\ id = None => points = 0
           /\ (id # None /\ id \notin DOMAIN stats[week]) => points = 0
           /\ (\A i \in 1 .. 3 : FieldPriority[i] \notin DOMAIN rec) => points = 0
           /\ \A i \in 1 .. 3 :
                 ( /\ FieldPriority[i] \in DOMAIN rec
                   /\ \A j \in 1 .. (i - 1) : FieldPriority[j] \notin DOMAIN rec )
                 => points = rec[FieldPriority[i]]
           /\ rec = C2_Example => points = 12

C2_Witness ==
    api_pc = "returned" /\ C2_Record = C2_Example /\ points = 12

-----------------------------------------------------------------------------
(* C3: player lookup *)

\* the name the directory was built from
SourceName(player_info) ==
    player_info.first_name \o <<" ">> \o player_info.last_name

\* the record is the one its normalized name is mapped to
C3_Listed(i) ==
    /\ players[i].position \in offensive_positions
    /\ players[i].first_name # <<>>
    /\ players[i].last_name # <<>>
    /\ \A k \in (i + 1) .. Len(players) :
          players[k].position \in offensive_positions
          => full_name(players[k]) # full_name(players[i])

\* C3: a looked-up name that differs from an eligible player's source name
\* only in letter case or in leading/trailing whitespace resolves to that
\* player's id.
C3_LookupInsensitive ==
    api_pc \in {"ready", "returned"} =>
        \A i \in 1 .. Len(players) :
            ( /\ C3_Listed(i)
              /\ lower(strip(player_name)) = lower(strip(SourceName(players[i]))) )
            => LookupPlayerId(player_map, player_name) = players[i].id

-----------------------------------------------------------------------------
(* C4, C5: roster scoring *)

\* the points the resolver gives a name in the week of the last run
ResolvedPoints(name) ==
    get_weekly_stats_for_player(create_player_name_map(players), stats, name,
                                last_run.week)

\* what the scorer is to record for the cell of row r (from 2) and owner
\* column c (from 1) of the roster
ExpectedEntry(values, r, c) ==
    IF c + 1 > Len(values[r])
    THEN [player |-> T_MISSING, points |-> 0]
    ELSE [player |-> values[r][c + 1].s, points |-> ResolvedPoints(values[r][c + 1].s)]

\* no two rows of the roster carry the same position label
DistinctLabels(values) ==
    \A r, q \in 2 .. Len(values) :
        (r # q /\ values[r] # <<>> /\ values[q] # <<>>) => values[r][1] # values[q][1]

\* C4: the round completes, and for every position row and owner column of a
\* roster of distinct position labels the scorer has recorded, for that owner
\* and position, MISSING with 0 points when the row is too short to hold the
\* cell, and the named player with the resolved points for every other cell.
C4_ShortRowsTolerated ==
    (runs = 1 /\ DistinctLabels(last_run.roster)) =>
        LET values == last_run.roster
            headers == Slice1(values[1])
        IN /\ last_run.done
           /\ \A r \in 2 .. Len(values) : \A c \in 1 .. Len(headers) :
                values[r] # <<>> =>
                    /\ DictHas(scores, headers[c])
                    /\ DictHas(DictGet(scores, headers[c]), values[r][1])
                    /\ DictGet(DictGet(scores, headers[c]), values[r][1])
                         = ExpectedEntry(values, r, c)

\* the sum of the points of column c over the rows 2 .. r of the roster
RECURSIVE ColumnPoints(_, _, _)
ColumnPoints(values, c, r) ==
    IF r < 2
    THEN 0
    ELSE ExpectedEntry(values, r, c).points + ColumnPoints(values, c, r - 1)

\* the rosters C5 speaks of: an owner header, at least one row, every row
\* with its position label
WellFormedRoster(values) ==
    /\ Len(values) >= 2
    /\ Len(values[1]) >= 2
    /\ \A r \in 2 .. Len(values) : values[r] # <<>>

\* C5: for a well-formed roster the scores grid written ends with a TOTAL
\* row, and each owner's TOTAL is the sum over all position rows of the
\* points of the player in the owner's cell, a missing cell counting 0.
C5_TotalRowIsSum ==
    (runs = 1 /\ WellFormedRoster(last_run.roster)) =>
        LET values == last_run.roster
            headers == Slice1(values[1])
            table == latest[last_run.week].values
        IN /\ last_run.done
           /\ table # <<>>
           /\ table[Len(table)][1] = Str(T_TOTAL)
           /\ Len(table[Len(table)]) = Len(headers) + 1
           /\ \A c \in 1 .. Len(headers) :
                /\ table[1][c + 1] = headers[c]
                /\ table[Len(table)][c + 1] = Num(ColumnPoints(values, c, Len(values)))

-----------------------------------------------------------------------------
(* C6, C7, C8, C10: the Running Totals *)

\* the grid of the round's sheet, empty when the spreadsheet has none
RoundGrid(doc, w) ==
    IF HasSheet(doc, ScoresTitle(w)) THEN GridOf(doc, ScoresTitle(w)) ELSE <<>>

\* the number a round sheet's last row holds in the column headed by the
\* owner; 0 when there is no such column, no such cell or no number in it
OwnerValue(grid, owner) ==
    IF /\ grid # <<>>
       /\ \E c \in 2 .. Len(grid[1]) :
            grid[1][c] = owner /\ c <= Len(grid[Len(grid)]) /\ IsNumber(grid[Len(grid)][c])
    THEN grid[Len(grid)][CHOOSE c \in 2 .. Len(grid[1]) : grid[1][c] = owner].n
    ELSE 0

\* the sum of the owner's values over the round sheets of the weeks 1 .. w
RECURSIVE SumOfRounds(_, _, _)
SumOfRounds(doc, owner, w) ==
    IF w < 1
    THEN 0
    ELSE OwnerValue(RoundGrid(doc, w), owner) + SumOfRounds(doc, owner, w - 1)

\* C6: the last row of the table written is TOTAL followed, for each owner
\* of the header, by the sum over the round sheets of the owner's value in
\* the sheet's last row; rounds [10, 20] and [5, 25] give [15, 45].
C6_TotalRowSumsRounds ==
    (runs = 1 /\ totals_out.written) =>
        LET table == totals_out.values
            owners == Slice1(table[1])
            total == table[Len(table)]
        IN /\ total[1] = Str(T_TOTAL)
           /\ Len(total) = Len(owners) + 1
           /\ \A i \in 1 .. Len(owners) :
                total[i + 1] = Num(SumOfRounds(sheets, owners[i], 4))
           /\ (SubSeq(sheets, 2, 3) = ExampleSheets
               => total = <<Str(T_TOTAL), Num(15), Num(45)>>)

C6_Witness ==
    /\ runs = 1
    /\ totals_out.written
    /\ SubSeq(sheets, 2, 3) = ExampleSheets
    /\ totals_out.values[4] = <<Str(T_TOTAL), Num(15), Num(45)>>

\* the place of an owner among the keys of totals
KeyIndex(items, owner) == CHOOSE i \in 1 .. Len(items) : items[i].key = owner

\* C7: the standings list every owner of totals exactly once with its total,
\* by total descending, owners of equal totals in the order of the keys.
C7_StandingsStable ==
    (runs = 1 /\ totals_out.written) =>
        LET items == totals_out.totals
            st == totals_out.sorted_totals
        IN /\ Len(st) = Len(items)
           /\ \A i \in 1 .. Len(items) :
                Cardinality({j \in 1 .. Len(st) : st[j] = items[i]}) = 1
           /\ \A j, k \in 1 .. Len(st) :
                j < k => /\ st[j].val >= st[k].val
                         /\ (st[j].val = st[k].val
                             => KeyIndex(items, st[j].key) < KeyIndex(items, st[k].key))

\* two owners tie and are listed in the order of the first header, B then A
C7_Witness ==
    /\ runs = 1
    /\ totals_out.written
    /\ Len(totals_out.sorted_totals) = 2
    /\ totals_out.sorted_totals[1].val = totals_out.sorted_totals[2].val
    /\ totals_out.sorted_totals[1].val > 0
    /\ totals_out.sorted_totals[1].key = OwnerB

\* the cells from column c on of a last row, a number under every owner of
\* the header
RECURSIVE SanitizedRow(_, _, _)
SanitizedRow(header, row, c) ==
    IF c > Max(Len(header), Len(row))
    THEN <<>>
    ELSE <<IF c >= 2 /\ c <= Len(header) /\ (c > Len(row) \/ ~IsNumber(row[c]))
           THEN Num(0)
           ELSE row[c]>> \o SanitizedRow(header, row, c + 1)

\* a round sheet with, under every owner of its header, the number of its
\* last row, or the number 0 where the cell is missing or holds no number
Sanitized(grid) ==
    IF grid = <<>>
    THEN grid
    ELSE SubSeq(grid, 1, Len(grid) - 1) \o <<SanitizedRow(grid[1], grid[Len(grid)], 1)>>

\* the sheets the call read: all but the Running Totals it wrote
SheetsRead == SelectSeq(sheets, LAMBDA sh : sh.title # T_RunningTotals)

RECURSIVE SanitizedFrom(_, _)
SanitizedFrom(doc, i) ==
    IF i > Len(doc)
    THEN <<>>
    ELSE <<[title |-> doc[i].title, grid |-> Sanitized(doc[i].grid)]>>
            \o SanitizedFrom(doc, i + 1)

SanitizedSheets == <<SheetsRead[1]>> \o SanitizedFrom(SheetsRead, 2)

\* some round sheet lacks a number under an owner of its header
HasBadCell ==
    \E i \in 2 .. Len(SheetsRead) :
        SheetsRead[i].grid # Sanitized(SheetsRead[i].grid)

\* the owners update_totals_sheet starts its dicts from
FirstOwners ==
    LET filled == {w \in Weeks : RoundGrid(sheets, w) # <<>>}
    IN IF filled = {}
       THEN <<>>
       ELSE Slice1(RoundGrid(sheets, CHOOSE w \in filled : \A v \in filled : w <= v)[1])

\* every round sheet's owners are among the first sheet's
SameOwners ==
    \A w \in Weeks :
        LET grid == RoundGrid(sheets, w)
        IN grid # <<>> =>
             \A c \in 2 .. Len(grid[1]) :
                 \E i \in 1 .. Len(FirstOwners) : FirstOwners[i] = grid[1][c]

\* C8: the call ends as it ends on the sheets in which every missing or
\* non-numeric cell of a last row is the number 0 (same table, same totals,
\* same per-round values), and such a cell never keeps the table from being
\* written.
C8_BadCellCountsZero ==
    runs = 1 =>
        /\ \A clean \in {update_totals_sheet(SanitizedSheets)} :
              /\ totals_out.written = clean.written
              /\ totals_out.values = clean.values
              /\ totals_out.totals = clean.totals
              /\ totals_out.weekly_scores = clean.weekly_scores
        /\ SameOwners => totals_out.written

\* a table is written from a round with a bad cell and a number
C8_Witness ==
    /\ runs = 1
    /\ totals_out.written
    /\ HasBadCell
    /\ \E i \in 1 .. Len(totals_out.totals) : totals_out.totals[i].val > 0
    /\ \E i \in 1 .. Len(totals_out.weekly_scores) :
         \E k \in 1 .. Len(totals_out.weekly_scores[i].val) :
            totals_out.weekly_scores[i].val[k] = 0

\* C10: the table written is the header Round + owners, one row per round
\* sheet found, in ascending round order, then the TOTAL row; the row of
\* round r is labelled with r's round name and carries, per owner, the
\* value of r's own sheet (0 where that sheet has none).
C10_RowsCarryOwnRound ==
    (runs = 1 /\ totals_out.written) =>
        LET table == totals_out.values
            owners == Slice1(table[1])
            found == {w \in Weeks : HasSheet(sheets, ScoresTitle(w))}
        IN /\ table[1] = <<Str(T_Round)>> \o FirstOwners
           /\ Len(table) = Cardinality(found) + 2
           /\ \A w \in found :
                LET row == table[Cardinality({v \in found : v < w}) + 2]
                IN /\ row[1] = Str(get_round_name(w))
                   /\ Len(row) = Len(owners) + 1
                   /\ \A i \in 1 .. Len(owners) :
                        row[i + 1] = Num(OwnerValue(RoundGrid(sheets, w), owners[i]))

-----------------------------------------------------------------------------
(* C9: re-running a round *)

\* the sum of the owner's totals over the scores grids the most recent runs
\* of the weeks 1 .. w wrote
RECURSIVE SumOfLatest(_, _)
SumOfLatest(owner, w) ==
    IF w < 1
    THEN 0
    ELSE OwnerValue(latest[w].values, owner) + SumOfLatest(owner, w - 1)

\* C9: the Running Totals a run writes hold, per owner, the sum of the
\* totals of the scores grids written by the most recent run of each round,
\* and a run whose inputs are those of the previous run of its round leaves
\* every sheet as it was.
C9_TotalsAreRecomputed ==
    last_run.done =>
        /\ totals_out.written
        /\ LET table == totals_out.values
               owners == Slice1(table[1])
           IN \A i \in 1 .. Len(owners) :
                table[Len(table)][i + 1] = Num(SumOfLatest(owners[i], 4))
        /\ last_run.same_inputs => last_run.unchanged

-----------------------------------------------------------------------------
(* C11: owner identity across round sheets *)

\* the number a round sheet's last row holds in its i-th owner column; 0
\* when the sheet is empty or the cell is missing or holds no number
PositionValue(grid, i) ==
    IF grid # <<>> /\ i + 1 <= Len(grid[Len(grid)]) /\ IsNumber(grid[Len(grid)][i + 1])
    THEN grid[Len(grid)][i + 1].n
    ELSE 0

\* the sum of the i-th owner columns over the round sheets of the weeks 1 .. w
RECURSIVE SumOfPositions(_, _, _)
SumOfPositions(doc, i, w) ==
    IF w < 1
    THEN 0
    ELSE PositionValue(RoundGrid(doc, w), i) + SumOfPositions(doc, i, w - 1)

\* two round sheets name the same owners in different column orders
OrdersDiffer ==
    \E v, w \in Weeks :
        /\ RoundGrid(sheets, v) # <<>>
        /\ RoundGrid(sheets, w) # <<>>
        /\ RoundGrid(sheets, v)[1] = <<Str(T_Position), OwnerA, OwnerB>>
        /\ RoundGrid(sheets, w)[1] = <<Str(T_Position), OwnerB, OwnerA>>

====
